---- MODULE Spec2Model ----
(***************************************************************************)
(* Table column-resize delta calculation (ephox.snooker.calc.Deltas).      *)
(*                                                                         *)
(* determine(input, column, step, min) is a pure function: it classifies   *)
(* the column with neighbours and folds the classification into a sequence *)
(* of per-column width offsets.  The model calls it on every bounded input *)
(* and records the returned offsets; the resize caller then adds them to   *)
(* the widths.                                                             *)
(*                                                                         *)
(* JavaScript arrays are modelled as TLA+ sequences; the operators below   *)
(* keep the 0-based indices of the source and translate on access.         *)
(***************************************************************************)
EXTENDS Integers, Sequences, FiniteSets, TLC

VARIABLES
  widths,       \* the column widths the next resize starts from
  minWidth,     \* the minimum column width allowed
  columnIndex,  \* determine's column argument of the last call
  dragStep,     \* determine's step argument of the last call (not negated)
  columnContext, \* the classification neighbours returned in the last call
  deltas,       \* the offsets the last call returned
  drags,        \* how many returned offsets have been added to the widths
  pc,           \* "idle" before a call, "done" when determine has returned
  toolbar,      \* the context toolbar's state held by register (see ToolbarInit)
  editor        \* the editor and platform state the context toolbar reads

vars == <<widths, minWidth, columnIndex, dragStep, columnContext, deltas, drags, pc,
          toolbar, editor>>

(***************************************************************************)
(* Bounds of the model.                                                    *)
(***************************************************************************)
MaxLen == 3
MaxWidth == 3
MaxMin == 3
MaxStep == 4
MaxDrags == 2
MaxElements == 2

Widths == 0..MaxWidth
Mins == 0..MaxMin
Steps == (0 - MaxStep)..MaxStep
Columns == (0 - 1)..MaxLen

RECURSIVE SeqsUpTo(_, _)
SeqsUpTo(S, n) ==
  IF n = 0 THEN {<<>>}
  ELSE LET shorter == SeqsUpTo(S, n - 1)
       IN shorter \cup {Append(s, x) : s \in {t \in shorter : Len(t) = n - 1}, x \in S}

WidthSeqs == SeqsUpTo(Widths, MaxLen)

(***************************************************************************)
(* JavaScript array and Math helpers used by Deltas.js.                    *)
(***************************************************************************)
\* array[i] with a 0-based index
At(array, i) == array[i + 1]

\* Math.max(a, b)
Max(a, b) == IF a >= b THEN a ELSE b

\* Array.prototype.slice(start, end): negative arguments count from the end,
\* both are clamped to the array
SliceIndex(len, k) == IF k < 0 THEN Max(len + k, 0) ELSE IF k > len THEN len ELSE k

slice(array, start, end) ==
  LET from == SliceIndex(Len(array), start)
      to == SliceIndex(Len(array), end)
  IN IF from >= to THEN <<>> ELSE SubSeq(array, from + 1, to)

\* Array.prototype.slice(start)
sliceFrom(array, start) == slice(array, start, Len(array))

\* zero = Arr.map(array, Fun.constant(0))
zero(array) == [i \in 1..Len(array) |-> 0]

(***************************************************************************)
(* ColumnContext: the tagged variant built by neighbours and consumed by   *)
(* the fold at the end of determine, which calls the handler of the        *)
(* variant with the variant's fields.                                      *)
(***************************************************************************)
none == [tag |-> "none"]
only(index) == [tag |-> "only", index |-> index]
left(index, next) == [tag |-> "left", index |-> index, next |-> next]
middle(prev, index, next) == [tag |-> "middle", prev |-> prev, index |-> index, next |-> next]
right(prev, index) == [tag |-> "right", prev |-> prev, index |-> index]

(***************************************************************************)
(* neighbours: based on the column index, identify the context.            *)
(***************************************************************************)
\* Mutant: the test for the last column is missing.
neighbours_noRight(input, index) ==
  IF Len(input) = 0 THEN none
  ELSE IF Len(input) = 1 THEN only(0)
  ELSE IF index = 0 THEN left(0, 1)
  ELSE IF index > 0 /\ index < Len(input) - 1 THEN middle(index - 1, index, index + 1)
  ELSE none

neighbours(input, index) ==
  IF Len(input) = 0 THEN none
  ELSE IF Len(input) = 1 THEN only(0)
  ELSE IF index = 0 THEN left(0, 1)
  ELSE IF index = Len(input) - 1 THEN right(index - 1, index)
  ELSE IF index > 0 /\ index < Len(input) - 1 THEN middle(index - 1, index, index + 1)
  ELSE none

(***************************************************************************)
(* The handlers of determine.  In the source they close over result (a     *)
(* copy of input), the negated step and min; here these are parameters.    *)
(***************************************************************************)
\* Mutant: the copy of the input is returned instead of zeros.
onNone_copy(result) == result

onNone(result) == zero(result)

\* Mutant: the single column takes the step without the floor.
onOnly_noFloor(result, step, min, index) == << step >>

onOnly(result, step, min, index) ==
  LET newNext == Max(min, At(result, index) + step)
  IN << newNext - At(result, index) >>

\* Mutant: the trailing zeros start at next instead of next + 1.
onChange_sliceNext(result, step, min, index, next) ==
  IF step >= 0
  THEN LET newNext == Max(min, At(result, next) - step)
       IN zero(slice(result, 0, index)) \o << step, newNext - At(result, next) >>
            \o zero(sliceFrom(result, next))
  ELSE LET newThis == Max(min, At(result, index) + step)
           diffx == At(result, index) - newThis
       IN zero(slice(result, 0, index)) \o << newThis - At(result, index), diffx >>
            \o zero(sliceFrom(result, next))

\* Mutant: on the shrink branch the next column takes the whole step, not
\* what column index actually lost.
onChange_nextTakesStep(result, step, min, index, next) ==
  IF step >= 0
  THEN LET newNext == Max(min, At(result, next) - step)
       IN zero(slice(result, 0, index)) \o << step, newNext - At(result, next) >>
            \o zero(sliceFrom(result, next + 1))
  ELSE LET newThis == Max(min, At(result, index) + step)
           diffx == 0 - step
       IN zero(slice(result, 0, index)) \o << newThis - At(result, index), diffx >>
            \o zero(sliceFrom(result, next + 1))

\* Mutant: on the grow branch column index grows only by what the next
\* column actually lost.
onChange_growByLost(result, step, min, index, next) ==
  IF step >= 0
  THEN LET newNext == Max(min, At(result, next) - step)
       IN zero(slice(result, 0, index))
            \o << At(result, next) - newNext, newNext - At(result, next) >>
            \o zero(sliceFrom(result, next + 1))
  ELSE LET newThis == Max(min, At(result, index) + step)
           diffx == At(result, index) - newThis
       IN zero(slice(result, 0, index)) \o << newThis - At(result, index), diffx >>
            \o zero(sliceFrom(result, next + 1))

\* Mutant: on the grow branch the next column is not clipped at min.
onChange_noNextFloor(result, step, min, index, next) ==
  IF step >= 0
  THEN LET newNext == At(result, next) - step
       IN zero(slice(result, 0, index)) \o << step, newNext - At(result, next) >>
            \o zero(sliceFrom(result, next + 1))
  ELSE LET newThis == Max(min, At(result, index) + step)
           diffx == At(result, index) - newThis
       IN zero(slice(result, 0, index)) \o << newThis - At(result, index), diffx >>
            \o zero(sliceFrom(result, next + 1))

onChange(result, step, min, index, next) ==
  IF step >= 0
  THEN LET newNext == Max(min, At(result, next) - step)
       IN zero(slice(result, 0, index)) \o << step, newNext - At(result, next) >>
            \o zero(sliceFrom(result, next + 1))
  ELSE LET newThis == Max(min, At(result, index) + step)
           diffx == At(result, index) - newThis
       IN zero(slice(result, 0, index)) \o << newThis - At(result, index), diffx >>
            \o zero(sliceFrom(result, next + 1))

onLeft(result, step, min, index, next) == onChange(result, step, min, index, next)

onMiddle(result, step, min, prev, index, next) == onChange(result, step, min, index, next)

\* Mutant: the last column is clipped at min on the grow branch too.
onRight_clipped(result, step, min, prev, index) ==
  LET size == Max(min, At(result, index) + step)
  IN zero(slice(result, 0, index)) \o << size - At(result, index) >>

\* Mutant: the last column is not clipped at min on the shrink branch.
onRight_noFloor(result, step, min, prev, index) ==
  zero(slice(result, 0, index)) \o << step >>

onRight(result, step, min, prev, index) ==
  IF step >= 0
  THEN zero(slice(result, 0, index)) \o << step >>
  ELSE LET size == Max(min, At(result, index) + step)
       IN zero(slice(result, 0, index)) \o << size - At(result, index) >>

(***************************************************************************)
(* determine: the offsets to apply to each column width for a resize at    *)
(* column by step, with min the minimum column width allowed.              *)
(***************************************************************************)
\* Mutant: the step is not negated.
negate_forgotten(step) == step

\* step = -step
negate(step) == 0 - step

determine(input, column, step, min) ==
  LET s == negate(step)
      result == sliceFrom(input, 0)
      context == neighbours(input, column)
  IN \* context.fold(onNone, onOnly, onLeft, onMiddle, onRight)
     CASE context.tag = "none" -> onNone(result)
       [] context.tag = "only" -> onOnly(result, s, min, context.index)
       [] context.tag = "left" -> onLeft(result, s, min, context.index, context.next)
       [] context.tag = "middle" ->
            onMiddle(result, s, min, context.prev, context.index, context.next)
       [] context.tag = "right" -> onRight(result, s, min, context.prev, context.index)

(***************************************************************************)
(* Context toolbar (register).  The four Singleton values, the context     *)
(* bar's open state and display style and the debounced launcher's timer   *)
(* are the fields of one record; an Optional is a sequence of length 0 or  *)
(* 1.  placedWith records what the bar was last placed with: what the      *)
(* anchor layout read from lastElement and lastTrigger, and the bounds the *)
(* getBounds callback returned.                                            *)
(***************************************************************************)
Elements == 1..MaxElements
Positions == {"node", "selection", "line"}
OptionalOf(S) == {<<>>} \cup {<<x>> : x \in S}

ToolbarInit ==
  [lastElement |-> <<>>, lastTrigger |-> <<>>, lastBounds |-> <<>>,
   lastContextPosition |-> <<>>,
   isOpen |-> FALSE, display |-> "", timer |-> FALSE, focusoutTimer |-> FALSE,
   placedWith |-> <<>>]

EditorInit ==
  [initialized |-> FALSE, removed |-> FALSE, hasFocus |-> FALSE,
   isTouch |-> FALSE, isContextMenuOpen |-> FALSE]

\* getBounds: computes the bounds for the last position ('node' if there is
\* none) and remembers them; the bounds are known by the position they were
\* computed for
getBounds(tb) ==
  LET position == IF tb.lastContextPosition = <<>> THEN "node"
                  ELSE tb.lastContextPosition[1]
  IN [tb EXCEPT !.lastBounds = << [position |-> position] >>]

\* Mutant: a removed editor may still launch.
canLaunchToolbar_ignoreRemoved(ed) == ~(ed.isTouch /\ ed.isContextMenuOpen)

canLaunchToolbar(ed) == ~ed.removed /\ ~(ed.isTouch /\ ed.isContextMenuOpen)

\* shouldContextToolbarHide: the toolbar after the call and the result
shouldContextToolbarHide(tb, ed, overlap) ==
  IF ~canLaunchToolbar(ed)
  THEN [tb |-> tb, result |-> TRUE]
  ELSE [tb |-> getBounds(tb), result |-> ~overlap]

\* InlineView.hide
hide(tb) == [tb EXCEPT !.isOpen = FALSE]

\* Mutant: close forgets the remembered position.
close_keepPosition(tb) ==
  hide([tb EXCEPT !.lastElement = <<>>, !.lastTrigger = <<>>, !.lastBounds = <<>>])

close(tb) ==
  hide([tb EXCEPT !.lastElement = <<>>, !.lastTrigger = <<>>, !.lastBounds = <<>>,
                  !.lastContextPosition = <<>>])

\* The bar is placed within the bounds the getBounds callback returns, by the
\* anchor layout built by getAnchor, which reads lastElement.get and
\* isReposition at that moment.
place(tb) ==
  LET bounded == getBounds(tb)
  IN [bounded EXCEPT !.placedWith =
        << [lastElement |-> bounded.lastElement,
            isReposition |-> bounded.lastTrigger = <<"Reposition">>,
            within |-> bounded.lastBounds[1]] >>]

\* InlineView.reposition
reposition(tb) == place(tb)

\* InlineView.showWithinBounds(contextbar, anchor, ..., () => Optional.some(getBounds()))
showWithinBounds(tb) == place([tb EXCEPT !.isOpen = TRUE])

hideOrRepositionIfNecessary(tb, ed, overlap) ==
  IF tb.isOpen
  THEN LET shown == [tb EXCEPT !.display = ""]
           should == shouldContextToolbarHide(shown, ed, overlap)
       IN IF should.result
          THEN [should.tb EXCEPT !.display = "none"]
          ELSE reposition([should.tb EXCEPT !.lastTrigger = <<"Reposition">>])
  ELSE tb

\* Mutant: the element is stored before the bar is rendered.
launchContext_storeFirst(tb, ed, position, elem, overlap) ==
  LET stopped == [tb EXCEPT !.timer = FALSE]
  IN IF ~canLaunchToolbar(ed) THEN stopped
     ELSE LET remembered == [stopped EXCEPT !.lastContextPosition = <<position>>,
                                            !.lastTrigger = <<"NewAnchor">>,
                                            !.lastElement = elem,
                                            !.display = ""]
              rendered == showWithinBounds(remembered)
              should == shouldContextToolbarHide(rendered, ed, overlap)
          IN IF should.result THEN [should.tb EXCEPT !.display = "none"] ELSE should.tb

launchContext(tb, ed, position, elem, overlap) ==
  LET stopped == [tb EXCEPT !.timer = FALSE]   \* launchContextToolbar.stop()
  IN IF ~canLaunchToolbar(ed) THEN stopped
     ELSE LET remembered == [stopped EXCEPT !.lastContextPosition = <<position>>,
                                            !.lastTrigger = <<"NewAnchor">>,
                                            !.display = ""]
              rendered == showWithinBounds(remembered)
              stored == [rendered EXCEPT !.lastElement = elem]
              should == shouldContextToolbarHide(stored, ed, overlap)
          IN IF should.result THEN [should.tb EXCEPT !.display = "none"] ELSE should.tb

\* The callback of the debounced launchContextToolbar; found is the result of
\* ToolbarLookup.lookup: none, or the position of the toolbars and the element.
launchContextToolbarCallback(tb, ed, found, overlap) ==
  IF ~ed.hasFocus \/ ed.removed THEN tb
  ELSE IF found = <<>> THEN close(tb)
  ELSE launchContext(tb, ed, found[1].position, <<found[1].elem>>, overlap)

\* Calling the debounced launchContextToolbar (re)starts its timer.
launchContextToolbar(tb) == [tb EXCEPT !.timer = TRUE]

(***************************************************************************)
(* State machine: a call of determine on bounded inputs.                   *)
(***************************************************************************)
Init ==
  /\ toolbar = ToolbarInit
  /\ editor = EditorInit
  /\ widths \in WidthSeqs
  /\ minWidth \in Mins
  /\ columnIndex = 0
  /\ dragStep = 0
  /\ columnContext = none
  /\ deltas = <<>>
  /\ drags = 0
  /\ pc = "idle"

Determine ==
  /\ pc = "idle"
  /\ \E column \in Columns, step \in Steps :
       /\ columnIndex' = column
       /\ dragStep' = step
       /\ columnContext' = neighbours(widths, column)
       /\ deltas' = determine(widths, column, step, minWidth)
  /\ pc' = "done"
  /\ UNCHANGED <<widths, minWidth, drags, toolbar, editor>>

(***************************************************************************)
(* The resize caller adds the returned offsets to the column widths, and   *)
(* the next drag starts from the resulting widths.  Widths that leave the  *)
(* modelled range are not followed further, nor are more than MaxDrags     *)
(* drags in a row.                                                         *)
(***************************************************************************)
Add(input, offsets) == [i \in 1..Len(input) |-> input[i] + offsets[i]]

InRange(input) == \A i \in 1..Len(input) : input[i] \in (0 - MaxWidth)..MaxWidth

Apply ==
  /\ pc = "done"
  /\ drags < MaxDrags
  /\ InRange(Add(widths, deltas))
  /\ widths' = Add(widths, deltas)
  /\ columnIndex' = 0
  /\ dragStep' = 0
  /\ columnContext' = none
  /\ deltas' = <<>>
  /\ drags' = drags + 1
  /\ pc' = "idle"
  /\ UNCHANGED <<minWidth, toolbar, editor>>

Next == Determine \/ Apply

Spec == Init /\ [][Next]_vars

\* Every column starts at or above the minimum width.
AllAtLeast(input, min) == \A i \in 1..Len(input) : input[i] >= min

InitClosed == Init /\ AllAtLeast(widths, minWidth)

SpecClosed == InitClosed /\ [][Next]_vars

(***************************************************************************)
(* State machine of the context toolbar: the handlers register installs on *)
(* the editor's init event, the two timers, and the editor and platform    *)
(* state changing around them.  Handlers run to completion.                *)
(***************************************************************************)
deltasVars == <<widths, minWidth, columnIndex, dragStep, columnContext, deltas, drags, pc>>

InitToolbar ==
  /\ widths = <<>>
  /\ minWidth = 0
  /\ columnIndex = 0
  /\ dragStep = 0
  /\ columnContext = none
  /\ deltas = <<>>
  /\ drags = 0
  /\ pc = "idle"
  /\ toolbar = ToolbarInit
  /\ \E touch \in BOOLEAN : editor = [EditorInit EXCEPT !.isTouch = touch]

\* editor.on('init', ...)
OnInit ==
  /\ ~editor.initialized
  /\ editor' = [editor EXCEPT !.initialized = TRUE]
  /\ UNCHANGED <<toolbar, deltasVars>>

\* editor.on('remove', close)
OnRemove ==
  /\ editor.initialized
  /\ toolbar' = close(toolbar)
  /\ UNCHANGED <<editor, deltasVars>>

\* editor.on('ScrollContent ScrollWindow ObjectResized ResizeEditor longpress', ...)
OnScrollOrResize ==
  /\ editor.initialized
  /\ \E overlap \in BOOLEAN :
       toolbar' = hideOrRepositionIfNecessary(toolbar, editor, overlap)
  /\ UNCHANGED <<editor, deltasVars>>

\* editor.on('click keyup focus SetContent', launchContextToolbar)
OnClickKeyupFocusSetContent ==
  /\ editor.initialized
  /\ toolbar' = launchContextToolbar(toolbar)
  /\ UNCHANGED <<editor, deltasVars>>

\* The debounce timer of launchContextToolbar fires and the lookup returns
\* found.
LaunchTimerFiresWith(found, overlap) ==
  /\ toolbar.timer
  /\ toolbar' = launchContextToolbarCallback([toolbar EXCEPT !.timer = FALSE], editor,
                                             found, overlap)
  /\ UNCHANGED <<editor, deltasVars>>

LaunchTimerFires ==
  \E found \in OptionalOf([position : Positions, elem : Elements]), overlap \in BOOLEAN :
    LaunchTimerFiresWith(found, overlap)

\* editor.on(hideContextToolbarEvent, close)
OnHideContextToolbar ==
  /\ editor.initialized
  /\ toolbar' = close(toolbar)
  /\ UNCHANGED <<editor, deltasVars>>

\* editor.on(showContextToolbarEvent, ...): ctx is the position of the toolbar
\* the lookup table holds for e.toolbarKey, if any; target is e.target unless
\* it is the editor.
OnShowContextToolbarWith(ctx, target, overlap) ==
  /\ editor.initialized
  /\ toolbar' = IF ctx = <<>> THEN toolbar
                ELSE launchContext(toolbar, editor, ctx[1], target, overlap)
  /\ UNCHANGED <<editor, deltasVars>>

OnShowContextToolbar ==
  \E ctx \in OptionalOf(Positions), target \in OptionalOf(Elements), overlap \in BOOLEAN :
    OnShowContextToolbarWith(ctx, target, overlap)

\* editor.on('focusout', ...) starts an editor timeout.
OnFocusout ==
  /\ editor.initialized
  /\ toolbar' = [toolbar EXCEPT !.focusoutTimer = TRUE]
  /\ UNCHANGED <<editor, deltasVars>>

\* The focusout timeout fires; an editor timeout does not call back once the
\* editor is removed.  focusInside: the focus is in the sink or the context bar.
FocusoutTimerFires ==
  /\ toolbar.focusoutTimer
  /\ \E focusInside \in BOOLEAN :
       LET fired == [toolbar EXCEPT !.focusoutTimer = FALSE]
       IN toolbar' = IF ~editor.removed /\ ~focusInside THEN close(fired) ELSE fired
  /\ UNCHANGED <<editor, deltasVars>>

\* editor.on('SwitchMode', ...)
OnSwitchMode ==
  /\ editor.initialized
  /\ \E isReadOnly \in BOOLEAN :
       toolbar' = IF isReadOnly THEN close(toolbar) ELSE toolbar
  /\ UNCHANGED <<editor, deltasVars>>

\* editor.on('AfterProgressState', ...)
OnAfterProgressState ==
  /\ editor.initialized
  /\ \E state \in BOOLEAN :
       toolbar' = IF state THEN close(toolbar)
                  ELSE IF editor.hasFocus THEN launchContextToolbar(toolbar)
                  ELSE toolbar
  /\ UNCHANGED <<editor, deltasVars>>

\* editor.on('NodeChange', ...): barFocused is Focus.search(contextbar.element)
OnNodeChange ==
  /\ editor.initialized
  /\ \E barFocused \in BOOLEAN :
       toolbar' = IF barFocused THEN toolbar ELSE launchContextToolbar(toolbar)
  /\ UNCHANGED <<editor, deltasVars>>

\* The editor is removed (editor.removed becomes true and stays true).
EditorRemoved ==
  /\ ~editor.removed
  /\ editor' = [editor EXCEPT !.removed = TRUE]
  /\ UNCHANGED <<toolbar, deltasVars>>

\* The editor gains or loses the focus.
FocusChanges ==
  /\ editor' = [editor EXCEPT !.hasFocus = ~editor.hasFocus]
  /\ UNCHANGED <<toolbar, deltasVars>>

\* A context menu opens or closes (backstage.isContextMenuOpen).
ContextMenuChanges ==
  /\ editor' = [editor EXCEPT !.isContextMenuOpen = ~editor.isContextMenuOpen]
  /\ UNCHANGED <<toolbar, deltasVars>>

NextToolbar ==
  \/ OnInit
  \/ OnRemove
  \/ OnScrollOrResize
  \/ OnClickKeyupFocusSetContent
  \/ LaunchTimerFires
  \/ OnHideContextToolbar
  \/ OnShowContextToolbar
  \/ OnFocusout
  \/ FocusoutTimerFires
  \/ OnSwitchMode
  \/ OnAfterProgressState
  \/ OnNodeChange
  \/ EditorRemoved
  \/ FocusChanges
  \/ ContextMenuChanges

SpecToolbar == InitToolbar /\ [][NextToolbar]_vars

(***************************************************************************)
(* Vocabulary of the properties: the last call's arguments and result,     *)
(* with the 0-based column numbers of the source.                          *)
(***************************************************************************)
Called == pc = "done"
Length == Len(widths)
Width(i) == widths[i + 1]
Delta(i) == deltas[i + 1]
InRangeColumn == columnIndex \in 0..(Length - 1)
NotLast == Length > 1 /\ columnIndex \in 0..(Length - 2)
IsLast == Length > 1 /\ columnIndex = Length - 1
Inverted == 0 - dragStep
NonNegative(input) == \A i \in 1..Len(input) : input[i] >= 0
Zeros(n) == [i \in 1..n |-> 0]

RECURSIVE Sum(_)
Sum(seq) == IF Len(seq) = 0 THEN 0 ELSE Head(seq) + Sum(Tail(seq))

\* The positions the claims allow to be non-zero.
Adjusted ==
  IF Length = 1 THEN {0}
  ELSE IF NotLast THEN {columnIndex, columnIndex + 1}
  ELSE IF IsLast THEN {columnIndex}
  ELSE {}

(***************************************************************************)
(* C1 as stated: for every step > 0, every non-negative width sequence,    *)
(* every in-range column and every non-negative min, the delta of the      *)
(* target column is <= 0 (and on Left/Middle the delta of the next column  *)
(* is >= 0), also when the target column is already narrower than min.     *)
(***************************************************************************)
C1_PositiveStepNeverWidens ==
  (Called /\ dragStep > 0 /\ InRangeColumn /\ NonNegative(widths))
    => /\ Delta(columnIndex) <= 0
       /\ NotLast => Delta(columnIndex + 1) >= 0

(***************************************************************************)
(* C1 amended: the same, for a target column that is at least min wide.    *)
(***************************************************************************)
C1_PositiveStepNeverWidensFromMin ==
  (Called /\ dragStep > 0 /\ InRangeColumn /\ NonNegative(widths)
     /\ Width(columnIndex) >= minWidth)
    => /\ Delta(columnIndex) <= 0
       /\ NotLast => Delta(columnIndex + 1) >= 0

\* A positive step narrowed a target column that was wide enough, and the
\* next column took the width.
C1_Witness ==
  /\ Called /\ dragStep > 0 /\ NotLast /\ NonNegative(widths)
  /\ Width(columnIndex) > minWidth
  /\ Delta(columnIndex) < 0
  /\ Delta(columnIndex + 1) > 0

(***************************************************************************)
(* C2 as stated: determine([w], 0, step, min) returns                      *)
(* [max(min, w + step) - w] with step the third argument as passed.        *)
(***************************************************************************)
C2_OnlyAddsPublicStep ==
  (Called /\ Length = 1 /\ columnIndex = 0)
    => deltas = << Max(minWidth, Width(0) + dragStep) - Width(0) >>

(***************************************************************************)
(* C2 amended: determine([w], 0, step, min) returns                        *)
(* [max(min, w - step) - w]: the step as passed is subtracted.             *)
(***************************************************************************)
C2_OnlySubtractsPublicStep ==
  (Called /\ Length = 1 /\ columnIndex = 0)
    => deltas = << Max(minWidth, Width(0) - dragStep) - Width(0) >>

\* A single column was resized by a non-zero step, once clipped at the floor.
C2_Witness ==
  /\ Called /\ Length = 1 /\ columnIndex = 0
  /\ dragStep > 0
  /\ Width(0) > minWidth
  /\ Width(0) - dragStep < minWidth
  /\ deltas = << minWidth - Width(0) >>

(***************************************************************************)
(* C3: for every width sequence, column index (in range or not), step and  *)
(* min, the returned sequence has the length of the input and is 0 at      *)
(* every position that is not an adjusted one.                             *)
(***************************************************************************)
C3_LengthAndZeros ==
  Called =>
    /\ Len(deltas) = Length
    /\ \A p \in 0..(Length - 1) : p \notin Adjusted => Delta(p) = 0

\* A middle column was resized: the pair changed and the column before it
\* did not.
C3_Witness ==
  /\ Called /\ Length = MaxLen
  /\ columnIndex = 1
  /\ Delta(1) # 0 /\ Delta(2) # 0
  /\ Delta(0) = 0

(***************************************************************************)
(* C4: Left/Middle with a step > 0 (shrink branch): the delta of column i  *)
(* is max(min, widths[i] - step) - widths[i], the delta of column i + 1 is *)
(* widths[i] - max(min, widths[i] - step), every other delta is 0, and the *)
(* deltas sum to 0.                                                        *)
(***************************************************************************)
C4_ShrinkBranch ==
  (Called /\ dragStep > 0 /\ NotLast) =>
    LET newThis == Max(minWidth, Width(columnIndex) - dragStep)
    IN /\ Delta(columnIndex) = newThis - Width(columnIndex)
       /\ Delta(columnIndex + 1) = Width(columnIndex) - newThis
       /\ \A p \in 0..(Length - 1) : p \notin {columnIndex, columnIndex + 1} => Delta(p) = 0
       /\ Len(deltas) = Length
       /\ Sum(deltas) = 0

\* The shrink was clipped at the floor: column i lost less than the step.
C4_Witness ==
  /\ Called /\ dragStep > 0 /\ NotLast
  /\ Width(columnIndex) > minWidth
  /\ Width(columnIndex) - dragStep < minWidth
  /\ Delta(columnIndex) = minWidth - Width(columnIndex)
  /\ Delta(columnIndex + 1) = Width(columnIndex) - minWidth

(***************************************************************************)
(* C5: Left/Middle with a step <= 0 (grow branch, s = -step): the delta of *)
(* column i is exactly s, the delta of column i + 1 is                     *)
(* max(min, widths[i+1] - s) - widths[i+1], every other delta is 0; the    *)
(* deltas sum to 0 when widths[i+1] - s >= min and to a strictly positive  *)
(* amount when the floor is hit.                                           *)
(***************************************************************************)
C5_GrowBranch ==
  (Called /\ dragStep <= 0 /\ NotLast) =>
    LET next == columnIndex + 1
    IN /\ Delta(columnIndex) = Inverted
       /\ Delta(next) = Max(minWidth, Width(next) - Inverted) - Width(next)
       /\ \A p \in 0..(Length - 1) : p \notin {columnIndex, next} => Delta(p) = 0
       /\ Len(deltas) = Length
       /\ (Width(next) - Inverted >= minWidth) => Sum(deltas) = 0
       /\ (Width(next) - Inverted < minWidth) => Sum(deltas) > 0
       /\ Sum(deltas) >= 0

\* The next column hit the floor and the total width grew.
C5_Witness ==
  /\ Called /\ dragStep < 0 /\ NotLast
  /\ Width(columnIndex + 1) > minWidth
  /\ Width(columnIndex + 1) - Inverted < minWidth
  /\ Delta(columnIndex) = Inverted
  /\ Sum(deltas) > 0

(***************************************************************************)
(* C6: Right (the last column of a sequence longer than 1): every earlier  *)
(* delta is 0; with s = -step >= 0 the delta of column i is exactly s,     *)
(* without a floor, and with s < 0 it is max(min, widths[i] + s) -         *)
(* widths[i].                                                              *)
(***************************************************************************)
C6_RightBranch ==
  (Called /\ IsLast) =>
    /\ Len(deltas) = Length
    /\ \A p \in 0..(columnIndex - 1) : Delta(p) = 0
    /\ Inverted >= 0 => Delta(columnIndex) = Inverted
    /\ Inverted < 0 =>
         Delta(columnIndex) = Max(minWidth, Width(columnIndex) + Inverted) - Width(columnIndex)

\* The last column grew by s and is still narrower than min.
C6_Witness ==
  /\ Called /\ IsLast
  /\ Inverted > 0
  /\ Width(columnIndex) + Inverted < minWidth
  /\ Delta(columnIndex) = Inverted
  /\ Width(columnIndex) + Delta(columnIndex) < minWidth

(***************************************************************************)
(* C7: floor invariant.  Left/Middle with step <= 0: widths[next] +        *)
(* delta_next >= min.  Left/Middle with step > 0, and Right with step > 0: *)
(* widths[i] + delta_i >= min.                                             *)
(***************************************************************************)
C7_FloorInvariant ==
  /\ (Called /\ NotLast /\ dragStep <= 0)
       => Width(columnIndex + 1) + Delta(columnIndex + 1) >= minWidth
  /\ (Called /\ NotLast /\ dragStep > 0)
       => Width(columnIndex) + Delta(columnIndex) >= minWidth
  /\ (Called /\ IsLast /\ dragStep > 0)
       => Width(columnIndex) + Delta(columnIndex) >= minWidth

\* The last column was shrunk by more than it had above min and stopped at
\* min.
C7_Witness ==
  /\ Called /\ IsLast /\ dragStep > 0
  /\ NonNegative(widths)
  /\ Width(columnIndex) > minWidth
  /\ Width(columnIndex) - dragStep < minWidth
  /\ Width(columnIndex) + Delta(columnIndex) = minWidth

(***************************************************************************)
(* C8: the classification is, in this order: empty -> None; one element    *)
(* -> Only(0) whatever the index; index 0 -> Left(0, 1); index = length-1  *)
(* -> Right(length-2, length-1); 0 < index < length-1 ->                   *)
(* Middle(index-1, index, index+1); any other index -> None.               *)
(***************************************************************************)
C8_Classification ==
  Called =>
    columnContext =
      IF Length = 0 THEN [tag |-> "none"]
      ELSE IF Length = 1 THEN [tag |-> "only", index |-> 0]
      ELSE IF columnIndex = 0 THEN [tag |-> "left", index |-> 0, next |-> 1]
      ELSE IF columnIndex = Length - 1
        THEN [tag |-> "right", prev |-> Length - 2, index |-> Length - 1]
      ELSE IF columnIndex > 0 /\ columnIndex < Length - 1
        THEN [tag |-> "middle", prev |-> columnIndex - 1, index |-> columnIndex,
              next |-> columnIndex + 1]
      ELSE [tag |-> "none"]

\* The last column of a three-column sequence was classified Right(1, 2).
C8_Witness ==
  /\ Called /\ Length = 3 /\ columnIndex = 2
  /\ columnContext.tag = "right"
  /\ columnContext.prev = 1 /\ columnContext.index = 2

(***************************************************************************)
(* C9: whenever the classification is None, determine returns all zeros of *)
(* the input's length: the empty sequence for an empty input, and all      *)
(* zeros for an out-of-range index on a sequence longer than 1, whatever   *)
(* step and min are.                                                       *)
(***************************************************************************)
C9_NoneIsAllZero ==
  Called =>
    /\ columnContext.tag = "none" => deltas = Zeros(Length)
    /\ Length = 0 => columnContext.tag = "none" /\ deltas = <<>>
    /\ (Length > 1 /\ ~InRangeColumn) => columnContext.tag = "none" /\ deltas = Zeros(Length)

\* An index past the end of non-zero widths, with a non-zero step.
C9_Witness ==
  /\ Called /\ Length > 1 /\ columnIndex = Length
  /\ dragStep # 0
  /\ \A i \in 1..Length : widths[i] > 0
  /\ columnContext.tag = "none"
  /\ deltas = Zeros(Length)

(***************************************************************************)
(* C10: if every column is >= min, then for every index and step the       *)
(* widths plus the returned deltas are again all >= min; so from such      *)
(* widths no sequence of drags brings a column below min.  Stated for     *)
(* the initial states whose columns are all >= min (SpecClosed).           *)
(***************************************************************************)
C10_MinWidthClosed ==
  /\ AllAtLeast(widths, minWidth)
  /\ Called => AllAtLeast(Add(widths, deltas), minWidth)

\* After two drags a third one pushed the next column down to min.
C10_Witness ==
  /\ drags >= 2
  /\ Called /\ NotLast /\ dragStep < 0
  /\ minWidth > 0
  /\ Delta(columnIndex + 1) < 0
  /\ Width(columnIndex + 1) - Inverted < minWidth
  /\ Width(columnIndex + 1) + Delta(columnIndex + 1) = minWidth

\* The step of C10 without its precondition, which the code does not
\* guarantee: a target column narrower than min takes width from the next.
C10_ClosedWithoutPrecondition ==
  Called => \A i \in 1..Length :
    widths[i] >= minWidth => Add(widths, deltas)[i] >= minWidth

(***************************************************************************)
(* Vocabulary of the context toolbar properties.                           *)
(***************************************************************************)
Launchable == ~editor.removed /\ ~(editor.isTouch /\ editor.isContextMenuOpen)
Remembered == {"lastElement", "lastTrigger", "lastBounds", "lastContextPosition"}
AllEmpty(tb) == \A f \in Remembered : tb[f] = <<>>
SameRemembered == \A f \in Remembered : toolbar'[f] = toolbar[f]

(***************************************************************************)
(* C11: launchContext shows the bar and sets lastContextPosition,          *)
(* lastTrigger and lastElement only when the editor is not removed and not *)
(* (touch device with a context menu open); otherwise it only cancels the  *)
(* pending debounced launch and leaves the four remembered values and the  *)
(* bar's open state unchanged.  The debounced launcher does nothing when   *)
(* the editor has no focus and closes the bar when the lookup finds no     *)
(* toolbar.  Once the editor is removed and the bar closed, no later event *)
(* opens the bar again.                                                    *)
(***************************************************************************)
C11_LaunchGuard ==
  [][ /\ (~toolbar.isOpen /\ toolbar'.isOpen) => Launchable
      /\ \A f \in Remembered :
           (toolbar'[f] # toolbar[f] /\ toolbar'[f] # <<>>) => Launchable
      /\ (OnShowContextToolbar /\ ~Launchable) =>
           /\ SameRemembered
           /\ toolbar'.isOpen = toolbar.isOpen
           /\ toolbar' \in {toolbar, [toolbar EXCEPT !.timer = FALSE]}
      /\ (LaunchTimerFires /\ (~editor.hasFocus \/ editor.removed)) =>
           toolbar' = [toolbar EXCEPT !.timer = FALSE]
      /\ (\E overlap \in BOOLEAN :
            LaunchTimerFiresWith(<<>>, overlap)
            /\ editor.hasFocus /\ ~editor.removed) =>
           (~toolbar'.isOpen /\ AllEmpty(toolbar'))
      /\ editor.removed => editor'.removed
      /\ (editor.removed /\ ~toolbar.isOpen) => ~toolbar'.isOpen
    ]_vars

\* The editor was removed after its bar had been shown, the bar is closed,
\* and the editor has the focus and no launch pending: events still arrive.
C11_Witness ==
  /\ editor.initialized /\ editor.removed /\ editor.hasFocus
  /\ ~(editor.isTouch /\ editor.isContextMenuOpen)
  /\ toolbar.placedWith # <<>>
  /\ ~toolbar.isOpen
  /\ ~toolbar.timer

(***************************************************************************)
(* C12: in a launchContext that launches, lastContextPosition is set to    *)
(* the new position and lastTrigger to NewAnchor before the bar is         *)
(* rendered, and lastElement is set to the new element (or cleared when    *)
(* none is given) only after the render: the bar is placed within bounds   *)
(* computed for the new position, by a layout that sees the element of the *)
(* previous launch (or none) and isReposition = false.  lastTrigger        *)
(* becomes Reposition only in hideOrRepositionIfNecessary with the bar     *)
(* open and not required to hide.                                          *)
(***************************************************************************)
Launched(position, elem) ==
  /\ toolbar'.isOpen
  /\ toolbar'.lastContextPosition = <<position>>
  /\ toolbar'.lastTrigger = <<"NewAnchor">>
  /\ toolbar'.lastElement = elem
  /\ toolbar'.placedWith[1].lastElement = toolbar.lastElement
  /\ toolbar'.placedWith[1].isReposition = FALSE
  /\ toolbar'.placedWith[1].within.position = position

C12_LaunchOrdering ==
  [][ /\ \A position \in Positions, target \in OptionalOf(Elements), overlap \in BOOLEAN :
           (OnShowContextToolbarWith(<<position>>, target, overlap) /\ Launchable)
             => Launched(position, target)
      /\ \A position \in Positions, elem \in Elements, overlap \in BOOLEAN :
           (LaunchTimerFiresWith(<<[position |-> position, elem |-> elem]>>, overlap)
              /\ editor.hasFocus /\ Launchable)
             => Launched(position, <<elem>>)
      /\ (toolbar'.lastTrigger = <<"Reposition">> /\ toolbar.lastTrigger # <<"Reposition">>)
           => /\ OnScrollOrResize
              /\ toolbar.isOpen /\ toolbar'.isOpen
              /\ Launchable
              /\ toolbar'.display = ""
              /\ toolbar'.placedWith[1].isReposition
    ]_vars

\* The bar, last repositioned on element 1, was launched again on element 2
\* at another position: it was placed with element 1 and as a new anchor.
C12_Witness ==
  /\ toolbar.isOpen
  /\ toolbar.lastTrigger = <<"NewAnchor">>
  /\ toolbar.lastElement = <<2>>
  /\ toolbar.lastContextPosition = <<"line">>
  /\ toolbar.placedWith = << [lastElement |-> <<1>>, isReposition |-> FALSE,
                              within |-> [position |-> "line"]] >>

(***************************************************************************)
(* C13: after every handler, if the context bar is not open then           *)
(* lastElement, lastTrigger, lastBounds and lastContextPosition are all    *)
(* empty; close clears all four and hides the bar; and a step that writes  *)
(* lastBounds or lastTrigger leaves the bar open.                          *)
(***************************************************************************)
C13_ClosedMeansEmpty ==
  /\ [](/\ ~toolbar.isOpen => AllEmpty(toolbar)
        /\ AllEmpty(close(toolbar))
        /\ ~close(toolbar).isOpen)
  /\ [][ /\ (OnRemove \/ OnHideContextToolbar) => (~toolbar'.isOpen /\ AllEmpty(toolbar'))
          /\ \A f \in {"lastBounds", "lastTrigger"} :
               (toolbar'[f] # toolbar[f] /\ toolbar'[f] # <<>>) => toolbar'.isOpen
        ]_vars

\* The bar was shown and then closed on a live, focused editor: nothing is
\* remembered.
C13_Witness ==
  /\ editor.initialized /\ ~editor.removed /\ editor.hasFocus
  /\ toolbar.placedWith # <<>>
  /\ ~toolbar.isOpen
  /\ AllEmpty(toolbar)

====
